---------------------------- MODULE Spec2Model ----------------------------
(***************************************************************************)
(* A model of src/src/binners.c: the R entry point binYonX (validation,    *)
(* resolution of the breaks in one of three modes, the co-scan of x        *)
(* against the breaks with one of four reducers, the fill of empty bins,   *)
(* the bin mid-points), the two break generators and their entry points.   *)
(*                                                                         *)
(* A C double is modelled as an exact value <<n, d>>: the rational n/d     *)
(* in lowest terms when d > 0, and an IEEE special when d = 0              *)
(* (<<1,0>> = +Inf, <<-1,0>> = -Inf, <<0,0>> = NaN, <<1954,0>> = R's NA,   *)
(* the NaN that carries the payload 1954).  Rounding is not modelled.      *)
(* C arrays are 0-based; sequences here are 1-based, so the C element      *)
(* a[k] is a[k+1] below (see At).                                          *)
(***************************************************************************)
EXTENDS Integers, Sequences, FiniteSets, TLC

\* ------------------------------------------------------------------ bounds

\* longest x / y vector drawn
MaxLen == 2
\* x values are drawn from 0..MaxX, explicit breaks from 1..MaxX
MaxX == 2
\* most bins of an explicit breaks vector
MaxBins == 2
\* InitFacade draws fromX and toX from 0..MaxArg, nBins and binSize from -1..MaxArg
MaxArg == 2
\* InitBreaks draws fromX and toX from 0..MaxRange,
MaxRange == 10
\* nBins from 1..MaxNBins
MaxNBins == 5
\* and binSize from 1..MaxBinSize
MaxBinSize == 3

\* ------------------------------------------------------- double arithmetic

NaN == <<0, 0>>
PosInf == <<1, 0>>
NegInf == <<-1, 0>>
NA_REAL == <<1954, 0>>
\* the int range; R's NA_INTEGER is INT_MIN
IntMax == 2147483647
NA_INTEGER == -IntMax - 1

\* the double of an int
R(k) == <<k, 1>>

Abs(n) == IF n < 0 THEN -n ELSE n
Sign(n) == IF n < 0 THEN -1 ELSE IF n > 0 THEN 1 ELSE 0

RECURSIVE GCD(_, _)
GCD(a, b) == IF b = 0 THEN a ELSE GCD(b, a % b)

\* n/d in lowest terms, d > 0
Mk(n, d) == LET g == GCD(Abs(n), d) IN <<n \div g, d \div g>>

IsFinite(v) == v[2] > 0
IsInf(v) == v[2] = 0 /\ v[1] \in {1, -1}
IsNaN(v) == v[2] = 0 /\ v[1] \notin {1, -1}
ISNA(v) == v = NA_REAL

Neg(a) == IF IsNaN(a) THEN a ELSE <<-a[1], a[2]>>

Add(a, b) ==
  IF IsNaN(a) \/ IsNaN(b) THEN NaN
  ELSE IF IsInf(a) /\ IsInf(b) THEN (IF a = b THEN a ELSE NaN)
  ELSE IF IsInf(a) THEN a
  ELSE IF IsInf(b) THEN b
  ELSE Mk(a[1] * b[2] + b[1] * a[2], a[2] * b[2])

Sub(a, b) == Add(a, Neg(b))

\* IEEE division; a zero divisor is +0
Div(a, b) ==
  IF IsNaN(a) \/ IsNaN(b) THEN NaN
  ELSE IF IsInf(a) /\ IsInf(b) THEN NaN
  ELSE IF IsInf(a) THEN (IF a[1] * (IF b[1] < 0 THEN -1 ELSE 1) > 0 THEN PosInf ELSE NegInf)
  ELSE IF IsInf(b) THEN R(0)
  ELSE IF b[1] = 0 THEN (IF a[1] = 0 THEN NaN ELSE IF a[1] > 0 THEN PosInf ELSE NegInf)
  ELSE Mk(a[1] * b[2] * Sign(b[1]), a[2] * Abs(b[1]))

Mul(a, b) ==
  IF IsNaN(a) \/ IsNaN(b) THEN NaN
  ELSE IF IsInf(a) \/ IsInf(b)
  THEN (IF a[1] = 0 \/ b[1] = 0 THEN NaN
        ELSE IF Sign(a[1]) * Sign(b[1]) > 0 THEN PosInf ELSE NegInf)
  ELSE Mk(a[1] * b[1], a[2] * b[2])

Lt(a, b) ==
  IF IsNaN(a) \/ IsNaN(b) THEN FALSE
  ELSE IF a = b THEN FALSE
  ELSE IF a = NegInf \/ b = PosInf THEN TRUE
  ELSE IF a = PosInf \/ b = NegInf THEN FALSE
  ELSE a[1] * b[2] < b[1] * a[2]

Gt(a, b) == Lt(b, a)
Eq(a, b) == ~IsNaN(a) /\ ~IsNaN(b) /\ a = b
Ge(a, b) == Gt(a, b) \/ Eq(a, b)
Le(a, b) == Lt(a, b) \/ Eq(a, b)

\* ceil() of a finite double, as an integer
CeilInt(v) == -((-v[1]) \div v[2])

\* (int)ceil(q): the value when it is finite (the ranges drawn fit an int); otherwise the
\* conversion is undefined and the builds in use give INT_MIN (x86), or the
\* saturated value and 0 for a NaN (ARM)
CastCeil(q) ==
  IF IsFinite(q) THEN {CeilInt(q)}
  ELSE IF IsNaN(q) THEN {NA_INTEGER, 0}
  ELSE IF q = PosInf THEN {NA_INTEGER, IntMax}
  ELSE {NA_INTEGER}

\* n + 1 in int arithmetic, wrapping at 32 bits
IntSucc(n) == IF n = IntMax THEN NA_INTEGER ELSE n + 1

\* the C element a[k] of a 0-based array
At(a, k) == a[k + 1]

\* ------------------------------------------------------------------- state

VARIABLES
  entry,               \* the entry point called
  x, y, breaks, nBins, binSize, fromX, toX, fromIdx, toIdx,
  shiftByHalfBinSize, initValue, method,      \* the arguments
  pc,                  \* where the call stands
  err,                 \* the message of the error() that ended the call, or ""
  n_bin, brks, ans, bin_mids,                 \* binYonX's locals and buffers
  i, x_current_idx, el_count,                 \* the scan's locals
  result,              \* the list returned: [x |-> mid-points, y |-> aggregates]
  allocated,           \* the buffers allocVector has handed out
  oob,                 \* an element outside its buffer was written
  visits,              \* the scan's log: what each loop step did
  steps                \* loop steps of the scan so far

args == <<entry, x, y, breaks, nBins, binSize, fromX, toX, fromIdx, toIdx,
          shiftByHalfBinSize, initValue, method>>
scan == <<i, x_current_idx, el_count, visits, steps>>
vars == <<args, pc, err, n_bin, brks, ans, bin_mids, scan, result, allocated, oob>>

\* the error messages
ErrIdxNeg == "'fromIdx' and 'toIdx' have to be >= 0!"
ErrIdxOrder == "'fromIdx' has to be smaller than 'toIdx'!"
ErrIdxLen == "'toIdx' can not be larger than length(x)!"
ErrBreaks == "Not enough breaks defined!"
ErrNBins == "'nBins' must be larger 1!"
ErrBinSize == "'binSize' has to be > 0!"
\* allocVector's own error for a negative length
ErrAlloc == "negative length vectors are not allowed"

\* pc is "validate", "breaks", "alloc", "scan", "divide", "fill", "mids" as
\* the call goes, and ends "done" (returned), "error" (error() was called)
\* or "crash" (the process died of an undefined operation)

\* the state every call starts in, the arguments apart
Start ==
  /\ pc = "validate"
  /\ err = ""
  /\ n_bin = 0
  /\ brks = <<>>
  /\ ans = <<>>
  /\ bin_mids = <<>>
  /\ i = 0
  /\ x_current_idx = 0
  /\ el_count = <<>>
  /\ result = [x |-> <<>>, y |-> <<>>]
  /\ allocated = {}
  /\ oob = FALSE
  /\ visits = <<>>
  /\ steps = 0

\* error(): the call ends, nothing is returned
Fail(msg) ==
  /\ pc' = "error"
  /\ err' = msg

\* ------------------------------------------------------- break generation

RECURSIVE Accumulate(_, _, _)
\* the values current_val takes in k rounds of current_val += bin_size
Accumulate(current_val, bin_size, k) ==
  IF k = 0 THEN <<>>
  ELSE <<current_val>> \o Accumulate(Add(current_val, bin_size), bin_size, k - 1)

\* the divisor of _breaks_on_nBins' bin size
NBinsDivisor(nb, shift) == Sub(R(nb), R(shift))

\* NBinsStart without the shift by half a bin
NBinsStart_NoShift(from_val, bin_size, shift) == from_val

\* the first break of _breaks_on_nBins
NBinsStart(from_val, bin_size, shift) ==
  IF shift > 0 THEN Sub(from_val, Div(bin_size, R(2))) ELSE from_val

\* _breaks_on_nBins: the n_bin + 1 breaks it writes
BreaksOnNBins(from_val, to_val, nb, shift) ==
  LET bin_size == Div(Sub(to_val, from_val), NBinsDivisor(nb, shift))
  IN Accumulate(NBinsStart(from_val, bin_size, shift), bin_size, nb + 1)

\* BinSizeLast on the grid of the bin size, not forced to to_val
BinSizeLast_Grid(from_val, to_val, nb, bin_size) == Add(from_val, Mul(R(nb), bin_size))

\* the last break _breaks_on_binSize writes
BinSizeLast(from_val, to_val, nb, bin_size) == to_val

\* _breaks_on_binSize: the n_bin + 1 breaks it writes (n_bin >= 0)
BreaksOnBinSize(from_val, to_val, nb, bin_size) ==
  Accumulate(from_val, bin_size, nb) \o <<BinSizeLast(from_val, to_val, nb, bin_size)>>

\* binYonX's from_x in bin-size mode
ShiftedFrom(from_x, bin_size, shift) ==
  IF shift > 0 THEN Sub(from_x, Div(bin_size, R(2))) ELSE from_x

\* the bin count of bin-size mode, before the cast
BinSizeCount(from_x, to_x, bin_size) == Div(Sub(to_x, from_x), bin_size)

\* _bin_midPoint
BinMidPoint(b, nb) == [k \in 1..nb |-> Div(Add(b[k], b[k + 1]), R(2))]

\* ------------------------------------------------------------- binYonX

\* IndexCheck without the test of fromIdx against toIdx
IndexCheck_NoOrder ==
  IF fromIdx < 0 \/ toIdx < 0 THEN ErrIdxNeg
  ELSE IF toIdx >= Len(x) THEN ErrIdxLen
  ELSE ""

\* the three index checks, in the order of the code: the message, or ""
IndexCheck ==
  IF fromIdx < 0 \/ toIdx < 0 THEN ErrIdxNeg
  ELSE IF fromIdx > toIdx THEN ErrIdxOrder
  ELSE IF toIdx >= Len(x) THEN ErrIdxLen
  ELSE ""

Validate ==
  /\ entry = "binYonX"
  /\ pc = "validate"
  /\ IF IndexCheck # "" THEN Fail(IndexCheck)
     ELSE pc' = "breaks" /\ err' = err
  /\ UNCHANGED <<args, n_bin, brks, ans, bin_mids, scan, result, allocated, oob>>

\* bin-size mode rejects this bin size
BinSizeRejected(bin_size) == Lt(bin_size, R(0))

\* bin-count mode rejects this bin count
NBinsRejected(nb) == nb <= 0

\* explicit mode rejects this many bins
BreaksRejected(nb) == nb < 1

ResolveBreaks ==
  /\ pc = "breaks"
  /\ IF ~ISNA(breaks[1])
     THEN \* the breaks given
          /\ n_bin' = Len(breaks) - 1
          /\ IF BreaksRejected(n_bin')
             THEN Fail(ErrBreaks) /\ brks' = brks
             ELSE pc' = "alloc" /\ err' = err /\ brks' = breaks
          /\ UNCHANGED <<allocated, oob>>
     ELSE IF nBins # NA_INTEGER
     THEN \* the breaks of a bin count
          /\ n_bin' = nBins
          /\ IF NBinsRejected(n_bin')
             THEN Fail(ErrNBins) /\ UNCHANGED <<brks, allocated>>
             ELSE /\ allocated' = allocated \cup {"brks"}
                  /\ brks' = BreaksOnNBins(fromX, toX, n_bin', shiftByHalfBinSize)
                  /\ pc' = "alloc" /\ err' = err
          /\ oob' = oob
     ELSE \* the breaks of a bin size
          LET from_x == ShiftedFrom(fromX, binSize, shiftByHalfBinSize)
          IN IF BinSizeRejected(binSize)
             THEN Fail(ErrBinSize) /\ UNCHANGED <<n_bin, brks, allocated, oob>>
             ELSE \E nb \in CastCeil(BinSizeCount(from_x, toX, binSize)) :
                    /\ n_bin' = nb
                    /\ IF IntSucc(nb) < 0
                       THEN \* allocVector(REALSXP, n_bin + 1) fails
                            Fail(ErrAlloc) /\ UNCHANGED <<brks, allocated, oob>>
                       ELSE /\ allocated' = allocated \cup {"brks"}
                            /\ err' = err
                            /\ IF nb < 0
                               THEN \* brks has no element and brks[n_bin] is
                                    \* brks[-1]: the write is outside the buffer,
                                    \* and the call goes on or the process dies
                                    /\ brks' = <<>> /\ oob' = TRUE
                                    /\ pc' \in {"alloc", "crash"}
                               ELSE /\ brks' = BreaksOnBinSize(from_x, toX, nb, binSize)
                                    /\ oob' = oob
                                    /\ pc' = "alloc"
  /\ UNCHANGED <<args, ans, bin_mids, scan, result>>

\* where the call goes when the scan's for loop ends
AfterScan == IF method = 4 THEN "divide" ELSE "fill"

AllocAns ==
  /\ pc = "alloc"
  /\ IF n_bin < 0
     THEN \* allocVector(REALSXP, n_bin) fails
          Fail(ErrAlloc) /\ UNCHANGED <<ans, allocated, scan>>
     ELSE /\ allocated' = allocated \cup {"ans"}
          /\ ans' = [k \in 1..n_bin |-> NA_REAL]
          \* the reducer is entered: its cursor, its first bin, the mean's
          \* counter of that bin (int el_count[n_bin] has no defined
          \* behaviour for n_bin = 0)
          /\ x_current_idx' = fromIdx
          /\ i' = 0
          /\ el_count' = IF method = 4 /\ n_bin > 0 THEN <<0>> ELSE <<>>
          /\ pc' \in IF n_bin > 0 THEN {"scan"}
                     ELSE IF method = 4 THEN {AfterScan, "crash"}
                     ELSE {AfterScan}
          /\ err' = err
          /\ UNCHANGED <<visits, steps>>
  /\ UNCHANGED <<args, n_bin, brks, bin_mids, result, oob>>

\* ---------------------------------------------------------------- the scan

\* the fold of _bin_y_on_x_with_breaks_max
FoldMax(acc, yv) == IF ISNA(acc) \/ Gt(yv, acc) THEN yv ELSE acc

\* the fold of _bin_y_on_x_with_breaks_min
FoldMin(acc, yv) == IF ISNA(acc) \/ Lt(yv, acc) THEN yv ELSE acc

\* the fold of _bin_y_on_x_with_breaks_sum and of _bin_y_on_x_with_breaks_mean
FoldSum(acc, yv) == IF ISNA(acc) THEN yv ELSE Add(acc, yv)

\* the switch on the_method: 2 min, 3 sum, 4 mean, anything else max
Fold(m, acc, yv) ==
  IF m = 2 THEN FoldMin(acc, yv)
  ELSE IF m = 3 \/ m = 4 THEN FoldSum(acc, yv)
  ELSE FoldMax(acc, yv)

\* InBin with the last bin left half-open like the others
InBin_NoClosure(xv, bin) == Lt(xv, At(brks, bin + 1))

\* the scan's test that a value at or above brks[bin] belongs to the bin
InBin(xv, bin) ==
  \/ Lt(xv, At(brks, bin + 1))
  \/ (Eq(xv, At(brks, bin + 1)) /\ bin = n_bin - 1)

\* ReachedBin with > for >=
ReachedBin_Strict(xv, bin) == Gt(xv, At(brks, bin))

\* the scan's test that a value has reached the bin's lower break
ReachedBin(xv, bin) == Ge(xv, At(brks, bin))

\* the while loop's condition
InWindow(idx) == idx <= toIdx

Visit(act) == [idx |-> x_current_idx, bin |-> i, act |-> act]

\* NextBin starting every bin again at the window's first sample
NextBin_Rewind(act) ==
  /\ i' = i + 1
  /\ x_current_idx' = fromIdx
  /\ el_count' = IF method = 4 /\ i + 1 < n_bin THEN Append(el_count, 0) ELSE el_count
  /\ pc' = IF i + 1 = n_bin THEN AfterScan ELSE "scan"
  /\ ans' = ans
  /\ visits' = Append(visits, Visit(act))

\* the for loop moves to the next bin (after a break, or when the while ends)
NextBin(act) ==
  /\ i' = i + 1
  /\ x_current_idx' = x_current_idx
  /\ el_count' = IF method = 4 /\ i + 1 < n_bin THEN Append(el_count, 0) ELSE el_count
  /\ pc' = IF i + 1 = n_bin THEN AfterScan ELSE "scan"
  /\ ans' = ans
  /\ visits' = Append(visits, Visit(act))

\* x_current_idx++
Advance(act) ==
  /\ x_current_idx' = x_current_idx + 1
  /\ i' = i
  /\ pc' = pc
  /\ visits' = Append(visits, Visit(act))

\* one evaluation of the while loop of _bin_y_on_x_with_breaks_{max,min,sum,mean}
ScanStep ==
  /\ pc = "scan"
  /\ i < n_bin
  /\ steps' = steps + 1
  /\ IF InWindow(x_current_idx)
     THEN LET xv == At(x, x_current_idx)
              yv == At(y, x_current_idx)
          IN IF ReachedBin(xv, i)
             THEN IF InBin(xv, i)
                  THEN IF ~ISNA(yv)
                       THEN /\ ans' = [ans EXCEPT ![i + 1] = Fold(method, @, yv)]
                            /\ el_count' = IF method = 4
                                           THEN [el_count EXCEPT ![i + 1] = @ + 1]
                                           ELSE el_count
                            /\ Advance("fold")
                       ELSE /\ UNCHANGED <<ans, el_count>>
                            /\ Advance("na")
                  ELSE NextBin("break")
             ELSE /\ UNCHANGED <<ans, el_count>>
                  /\ Advance("low")
     ELSE NextBin("end")
  /\ UNCHANGED <<args, err, n_bin, brks, bin_mids, result, allocated, oob>>

\* the mean's division of each bin's sum by its count
MeanOf(sum, count) == IF count > 0 THEN Div(sum, R(count)) ELSE sum

MeanDivide ==
  /\ pc = "divide"
  /\ ans' = [k \in 1..n_bin |-> MeanOf(ans[k], el_count[k])]
  /\ pc' = "fill"
  /\ UNCHANGED <<args, err, n_bin, brks, bin_mids, scan, result, allocated, oob>>

\* Filled writing the default fill over every bin
Filled_Overwrite(v, init_value) == IF ~ISNA(init_value) THEN init_value ELSE v

\* the value the fill leaves in a bin
Filled(v, init_value) == IF ~ISNA(init_value) /\ ISNA(v) THEN init_value ELSE v

Fill ==
  /\ pc = "fill"
  /\ ans' = [k \in 1..n_bin |-> Filled(ans[k], initValue)]
  /\ pc' = "mids"
  /\ UNCHANGED <<args, err, n_bin, brks, bin_mids, scan, result, allocated, oob>>

\* the mid-points, the result list and its names; the call returns
Return ==
  /\ pc = "mids"
  /\ allocated' = allocated \cup {"bin_mids", "ans_list", "names"}
  /\ bin_mids' = BinMidPoint(brks, n_bin)
  /\ result' = [x |-> bin_mids', y |-> ans]
  /\ pc' = "done"
  /\ UNCHANGED <<args, err, n_bin, brks, ans, scan, oob>>

\* ------------------------------------------------- the break entry points

\* breaks_on_nBins: no check of its arguments, never shifted
CallBreaksOnNBins ==
  /\ entry = "breaks_on_nBins"
  /\ pc = "validate"
  /\ n_bin' = nBins
  /\ IF IntSucc(n_bin') < 0
     THEN Fail(ErrAlloc) /\ UNCHANGED <<brks, result, allocated>>
     ELSE /\ allocated' = allocated \cup {"ans"}
          /\ brks' = BreaksOnNBins(fromX, toX, n_bin', 0)
          /\ result' = [x |-> brks', y |-> <<>>]
          /\ pc' = "done" /\ err' = err
  /\ UNCHANGED <<args, ans, bin_mids, scan, oob>>

\* breaks_on_binSize: no check of its arguments, never shifted
CallBreaksOnBinSize ==
  /\ entry = "breaks_on_binSize"
  /\ pc = "validate"
  /\ \E nb \in CastCeil(BinSizeCount(fromX, toX, binSize)) :
       /\ n_bin' = nb
       /\ IF IntSucc(nb) < 0
          THEN Fail(ErrAlloc) /\ UNCHANGED <<brks, result, allocated, oob>>
          ELSE /\ allocated' = allocated \cup {"ans"}
               /\ IF nb < 0
                  THEN brks' = <<>> /\ oob' = TRUE /\ pc' \in {"done", "crash"}
                  ELSE /\ brks' = BreaksOnBinSize(fromX, toX, nb, binSize)
                       /\ oob' = oob /\ pc' = "done"
               /\ result' = [x |-> brks', y |-> <<>>]
               /\ err' = err
  /\ UNCHANGED <<args, ans, bin_mids, scan>>

\* ----------------------------------------------------------- specifications

Next ==
  \/ Validate
  \/ ResolveBreaks
  \/ AllocAns
  \/ ScanStep
  \/ MeanDivide
  \/ Fill
  \/ Return

NextBreaks ==
  \/ Next
  \/ CallBreaksOnNBins
  \/ CallBreaksOnBinSize

\* the doubles lo, lo+1 .. hi
RSet(lo, hi) == {R(k) : k \in lo..hi}
SeqsOf(S, lo, hi) == UNION {[1..n -> S] : n \in lo..hi}
NonDecreasing(s) == \A k \in 1..(Len(s) - 1) : Le(s[k], s[k + 1])

\* the y values drawn: missing, and two that differ
YVals == {NA_REAL, R(1), R(2)}

\* the arguments a mode does not read are passed as NA
ExplicitMode ==
  /\ nBins = NA_INTEGER
  /\ binSize = NA_REAL
  /\ fromX = NA_REAL
  /\ toX = NA_REAL
  /\ shiftByHalfBinSize = 0

\* x paired with every y of its length over ys
Samples(xs, ys) == UNION {{<<s, t>> : t \in [1..Len(s) -> ys]} : s \in xs}

\* x paired with every y of its length that repeats one value of ys
UniformSamples(xs, ys) == {<<s, [k \in 1..Len(s) |-> v]>> : s \in xs, v \in ys}

\* a call of binYonX with explicit breaks and a valid window (every valid
\* window, or the whole of x only)
ScanCall(xys, bs, ms, inits, whole) ==
  /\ entry = "binYonX"
  /\ \E p \in xys : x = p[1] /\ y = p[2]
  /\ breaks \in bs
  /\ ExplicitMode
  /\ fromIdx \in IF whole THEN {0} ELSE 0..(Len(x) - 1)
  /\ toIdx \in IF whole THEN {Len(x) - 1} ELSE fromIdx..(Len(x) - 1)
  /\ initValue \in inits
  /\ method \in ms
  /\ Start

\* x and the breaks non-decreasing, every window, every reducer, no default fill
Init ==
  ScanCall(Samples({s \in SeqsOf(RSet(0, MaxX), 1, MaxLen) : NonDecreasing(s)}, YVals),
           {s \in SeqsOf(RSet(1, MaxX), 2, MaxBins + 1) : NonDecreasing(s)},
           1..4, {NA_REAL}, FALSE)

Spec == Init /\ [][Next]_vars

\* x and the breaks in any order, every window; y all missing or all present
InitAny ==
  ScanCall(UniformSamples(SeqsOf(RSet(0, MaxX), 1, MaxLen), {NA_REAL, R(1)}),
           SeqsOf(RSet(1, MaxX), 2, MaxBins + 1),
           {1, 4}, {NA_REAL}, FALSE)

SpecAny == InitAny /\ [][Next]_vars

\* x and the breaks in any order, the whole of x, y with and without
\* missing values
InitSkip ==
  ScanCall(Samples(SeqsOf(RSet(0, MaxX), 1, MaxLen), {NA_REAL, R(1)}),
           SeqsOf(RSet(1, MaxX), 2, MaxBins + 1),
           {1, 4}, {NA_REAL}, TRUE)

SpecSkip == InitSkip /\ [][Next]_vars

\* every reducer, with and without a default fill, on the whole of x
InitFill ==
  ScanCall(Samples({s \in SeqsOf(RSet(0, MaxX), 1, MaxLen) : NonDecreasing(s)}, YVals),
           {s \in SeqsOf(RSet(1, MaxX), 2, MaxBins + 1) : NonDecreasing(s)},
           1..4, {NA_REAL, R(0)}, TRUE)

SpecFill == InitFill /\ [][Next]_vars

\* the vector <<1, 2, .. n>>
Ramp(n) == [k \in 1..n |-> R(k)]

\* every mode with accepted and rejected arguments, every index pair
InitFacade ==
  /\ entry = "binYonX"
  /\ \E n \in 1..MaxLen : x = Ramp(n) /\ y = Ramp(n)
  /\ fromIdx \in -1..MaxLen
  /\ toIdx \in -1..MaxLen
  /\ initValue = NA_REAL
  /\ method \in {1, 4}
  /\ \/ /\ breaks \in {Ramp(n) : n \in 1..(MaxBins + 1)}
        /\ ExplicitMode
     \/ /\ breaks = <<NA_REAL>>
        /\ fromX \in RSet(0, MaxArg)
        /\ toX \in RSet(0, MaxArg)
        /\ shiftByHalfBinSize \in {0, 1}
        /\ \/ nBins \in -1..MaxArg /\ binSize = NA_REAL
           \/ nBins = NA_INTEGER /\ binSize \in RSet(-1, MaxArg)
  /\ Start

SpecFacade == InitFacade /\ [][Next]_vars

\* the break generators on accepted arguments: through binYonX in both
\* generated modes, and through the two entry points
InitBreaks ==
  /\ x = Ramp(2)
  /\ y = Ramp(2)
  /\ fromIdx = 0
  /\ toIdx = 1
  /\ initValue = NA_REAL
  /\ breaks = <<NA_REAL>>
  /\ fromX \in RSet(0, MaxRange)
  /\ toX \in RSet(0, MaxRange)
  /\ \/ /\ entry = "binYonX"
        /\ method \in {1, 4}
        /\ shiftByHalfBinSize \in {0, 1}
        /\ \/ nBins \in 1..MaxNBins /\ binSize = NA_REAL
           \/ nBins = NA_INTEGER /\ binSize \in RSet(1, MaxBinSize)
     \/ /\ entry = "breaks_on_nBins"
        /\ method = 1
        /\ shiftByHalfBinSize = 0
        /\ nBins \in 1..MaxNBins /\ binSize = NA_REAL
     \/ /\ entry = "breaks_on_binSize"
        /\ method = 1
        /\ shiftByHalfBinSize = 0
        /\ nBins = NA_INTEGER /\ binSize \in RSet(1, MaxBinSize)
  /\ Start

SpecBreaks == InitBreaks /\ [][NextBreaks]_vars

\* ------------------------------------------------------------------ claims

\* the scan has ended and the fill has not begun
ScanDone == pc = "fill"

\* the bin (0-based) as the interval the data model gives it: closed at both
\* ends for the last bin, half-open otherwise
InInterval(xv, bin) ==
  /\ Le(At(brks, bin), xv)
  /\ IF bin < n_bin - 1 THEN Lt(xv, At(brks, bin + 1)) ELSE Le(xv, At(brks, bin + 1))

\* the samples of the window that are not missing and lie in the bin
Members(bin) ==
  {j \in fromIdx..toIdx : ~ISNA(At(y, j)) /\ InInterval(At(x, j), bin)}

RECURSIVE SumOver(_)
SumOver(S) ==
  IF S = {} THEN R(0)
  ELSE LET j == CHOOSE k \in S : TRUE IN Add(At(y, j), SumOver(S \ {j}))

\* the aggregate of the y values of the samples S, by definition
Aggregate(m, S) ==
  IF S = {} THEN NA_REAL
  ELSE IF m = 2 THEN CHOOSE v \in {At(y, j) : j \in S} : \A j \in S : Le(v, At(y, j))
  ELSE IF m = 3 THEN SumOver(S)
  ELSE IF m = 4 THEN Div(SumOver(S), R(Cardinality(S)))
  ELSE CHOOSE v \in {At(y, j) : j \in S} : \A j \in S : Ge(v, At(y, j))

\* C1: with x and the breaks non-decreasing, when the scan (and the mean's
\* division) has ended every bin holds the aggregate, under the reducer
\* chosen, of the non-missing samples of the window whose x lies in the bin's
\* interval, and NA when there is none; samples below the first or above the
\* last break are in no bin, and no error is raised.
C1_ReducersMatchReference ==
  (NonDecreasing(x) /\ NonDecreasing(breaks)) =>
    /\ err = ""
    /\ ScanDone => \A bin \in 0..(n_bin - 1) :
                     At(ans, bin) = Aggregate(method, Members(bin))

\* a mean over both samples of the last bin, one of them on the closing
\* break, the first bin left empty
C1_Witness ==
  /\ ScanDone
  /\ method = 4
  /\ n_bin = 2
  /\ ans = <<NA_REAL, <<3, 2>>>>
  /\ Cardinality(Members(1)) = 2
  /\ \E j \in Members(1) : Eq(At(x, j), At(brks, n_bin))

\* the scan has begun
ScanBegun == pc \in {"scan", "divide", "fill", "mids", "done"}

\* the log entries of loop steps that read x[idx]
ReadSteps == {k \in 1..Len(visits) : visits[k].act # "end"}

\* the log entries of loop steps that advanced the cursor
AdvanceSteps == {k \in 1..Len(visits) : visits[k].act \in {"fold", "na", "low"}}

\* the log entries of loop steps that found the sample to belong to the bin
MemberSteps == {k \in 1..Len(visits) : visits[k].act \in {"fold", "na"}}

\* C8 as stated: the cursor advances only past samples at or above the lower
\* break of the bin being processed, and a sample below it is never read.
C8_Original ==
  \A k \in ReadSteps : Ge(At(x, visits[k].idx), At(brks, visits[k].bin))

\* C8, amended: while bin i is processed a sample below breaks[i] is read and
\* the cursor advances past it leaving every bin as it was; the cursor
\* advances one sample at a time, and only past a sample below breaks[i] or
\* one that belongs to bin i, which is folded into bin i alone unless its y
\* is missing; a sample at or above breaks[i] that is not in bin i ends the
\* bin and stays under the cursor.
C8_CursorAdvance ==
  [][(pc = "scan" /\ InWindow(x_current_idx)) =>
       LET xv == At(x, x_current_idx)
           yv == At(y, x_current_idx)
       IN IF Lt(xv, At(brks, i))
          THEN x_current_idx' = x_current_idx + 1 /\ i' = i /\ ans' = ans
          ELSE IF InInterval(xv, i)
          THEN /\ x_current_idx' = x_current_idx + 1 /\ i' = i
               /\ \A k \in 1..n_bin : k # i + 1 => ans'[k] = ans[k]
               /\ IF ISNA(yv) THEN ans' = ans ELSE ~ISNA(ans'[i + 1])
          ELSE x_current_idx' = x_current_idx /\ i' = i + 1 /\ ans' = ans]_vars

\* a sample was folded into a bin after the first and the cursor then
\* advanced past a sample below that bin's lower break
C8_Witness ==
  \E k \in AdvanceSteps :
    /\ visits[k].act = "low"
    /\ visits[k].bin > 0
    /\ Lt(At(x, visits[k].idx), At(brks, visits[k].bin))
    /\ \E l \in MemberSteps : l < k /\ visits[l].act = "fold" /\ visits[l].bin = visits[k].bin

\* C9: for any x, any breaks and any valid window, in every state of the
\* scan the cursor is in [fromIdx, toIdx + 1], it never moves back and the
\* bins are taken in increasing order, only indices of the window are read,
\* no sample index is taken into a bin twice, the scan has made at most
\* n_bin + (toIdx - fromIdx + 1) loop steps, and while it runs it has made
\* fewer and has a bin left to process.
C9_ForwardScan ==
  ScanBegun =>
    /\ fromIdx <= x_current_idx /\ x_current_idx <= toIdx + 1
    /\ 0 <= i /\ i <= n_bin
    /\ \A k \in 1..(Len(visits) - 1) :
         /\ visits[k].idx <= visits[k + 1].idx
         /\ visits[k].bin <= visits[k + 1].bin
    /\ \A k \in 1..Len(visits) :
         /\ visits[k].idx <= x_current_idx
         /\ visits[k].bin <= i
    /\ \A k \in ReadSteps : fromIdx <= visits[k].idx /\ visits[k].idx <= toIdx
    /\ \A k, l \in MemberSteps : visits[k].idx = visits[l].idx => k = l
    /\ steps = Len(visits)
    /\ steps <= n_bin + (toIdx - fromIdx + 1)
    /\ pc = "scan" => (i < n_bin /\ steps < n_bin + (toIdx - fromIdx + 1))

\* x is not sorted, and the scan over a window of two samples and two bins
\* has used all of its n_bin + window loop steps, one of which took a sample
\* into a bin
C9_Witness ==
  /\ pc = "done"
  /\ ~NonDecreasing(x)
  /\ n_bin = 2
  /\ toIdx - fromIdx = 1
  /\ steps = n_bin + (toIdx - fromIdx + 1)
  /\ MemberSteps # {}

\* the samples the scan folded into the bin
Folded(bin) == {visits[k].idx : k \in {l \in 1..Len(visits) :
                                         visits[l].act = "fold" /\ visits[l].bin = bin}}

\* C7: after the fill, under every reducer, a bin that took no non-missing
\* sample holds the default fill (NA when the default fill is NA) and a bin
\* that took one or more holds the aggregate of what it took (for the mean,
\* the sum divided by the count).
C7_FillEmptyBins ==
  pc \in {"mids", "done"} =>
    \A bin \in 0..(n_bin - 1) :
      At(ans, bin) = IF Folded(bin) = {}
                     THEN (IF ISNA(initValue) THEN NA_REAL ELSE initValue)
                     ELSE Aggregate(method, Folded(bin))

\* a mean returned with a default fill of 0: one bin filled, the other the
\* mean of two samples
C7_Witness ==
  /\ pc = "done"
  /\ method = 4
  /\ initValue = R(0)
  /\ result.y = <<R(0), <<3, 2>>>>
  /\ Folded(0) = {} /\ Cardinality(Folded(1)) = 2

\* the index pair is one the three checks reject
BadIdx == fromIdx < 0 \/ toIdx < 0 \/ fromIdx > toIdx \/ toIdx >= Len(x)

\* nothing was derived, allocated or returned
NothingDone ==
  /\ n_bin = 0
  /\ brks = <<>>
  /\ ans = <<>>
  /\ bin_mids = <<>>
  /\ allocated = {}
  /\ visits = <<>>
  /\ result = [x |-> <<>>, y |-> <<>>]

SizeMode == entry = "binYonX" /\ ISNA(breaks[1]) /\ nBins = NA_INTEGER

\* binYonX resolves its breaks from the bin count
CountMode == entry = "binYonX" /\ ISNA(breaks[1]) /\ nBins # NA_INTEGER

\* the breaks are resolved, or the call has ended
BreaksResolved == pc \notin {"validate", "breaks"}

\* C3 as stated: in bin-size mode a call with valid indices and binSize <= 0
\* ends in the bin-size error with no bin count derived and no buffer
\* allocated.
C3_Original ==
  (SizeMode /\ ~BadIdx /\ Le(binSize, R(0)) /\ BreaksResolved) =>
    pc = "error" /\ err = ErrBinSize /\ NothingDone

\* C10 as stated: a call that returns returns n_bin >= 1 mid-points and as
\* many aggregates (bin sizes that C3 has rejected apart).
C10_Original ==
  (entry = "binYonX" /\ pc = "done" /\ (SizeMode => Gt(binSize, R(0)))) =>
    n_bin >= 1 /\ Len(result.x) = n_bin /\ Len(result.y) = n_bin

\* the k-th point of the grid start, start + step, start + 2 step ..
GridPoint(start, step, k) == IF k = 0 THEN start ELSE Add(start, Mul(R(k), step))

\* the breaks of shifted bin-count mode, by the formula
ShiftedGrid ==
  LET step == Div(Sub(toX, fromX), R(nBins - 1))
      start == Sub(fromX, Div(step, R(2)))
  IN [k \in 1..(nBins + 1) |-> GridPoint(start, step, k - 1)]

\* the call of the example: fromX = 0, toX = 10, nBins = 5, shifted
C4_Example ==
  CountMode /\ shiftByHalfBinSize = 1 /\ fromX = R(0) /\ toX = R(10) /\ nBins = 5

\* C4 as stated: the breaks of shifted bin-count mode are the grid of the
\* formula, and those of the example are -1.25, 1, 3.25, 5.5, 7.75, 10.
C4_Original ==
  (CountMode /\ shiftByHalfBinSize = 1 /\ nBins > 0 /\ BreaksResolved) =>
    /\ brks = ShiftedGrid
    /\ C4_Example => brks = <<<<-5, 4>>, R(1), <<13, 4>>, <<11, 2>>, <<31, 4>>, R(10)>>

\* C4, amended: the breaks of shifted bin-count mode are the nBins + 1 points
\* start, start + step .. start + nBins step with step = (toX - fromX) /
\* (nBins - 1) and start = fromX - step / 2, and those of the example are
\* -1.25, 1.25, 3.75, 6.25, 8.75, 11.25.
C4_ShiftedBreaks ==
  (CountMode /\ shiftByHalfBinSize = 1 /\ nBins > 0 /\ BreaksResolved) =>
    /\ brks = ShiftedGrid
    /\ C4_Example => brks = <<<<-5, 4>>, <<5, 4>>, <<15, 4>>, <<25, 4>>, <<35, 4>>, <<45, 4>>>>

\* the example's call has returned, its mid-points on the grid 0, 2.5 .. 10
C4_Witness ==
  /\ C4_Example
  /\ pc = "done"
  /\ Len(brks) = 6
  /\ result.x = <<R(0), <<5, 2>>, R(5), <<15, 2>>, R(10)>>

\* breaks were generated, by binYonX or by an entry point
Generated == BreaksResolved /\ pc # "error" /\ ISNA(breaks[1])

StrictlyIncreasing(s) == \A k \in 1..(Len(s) - 1) : Lt(s[k], s[k + 1])

\* C5 as stated: for fromX < toX and accepted nBins or binSize, shifted or
\* not, the breaks generated are strictly increasing values from at most
\* fromX to at least toX.
C5_Original ==
  (Generated /\ Lt(fromX, toX)) =>
    /\ Len(brks) >= 2
    /\ \A k \in 1..Len(brks) : IsFinite(brks[k])
    /\ StrictlyIncreasing(brks)
    /\ Le(brks[1], fromX)
    /\ Ge(brks[Len(brks)], toX)

\* breaks were generated from a bin size
BySize == Generated /\ nBins = NA_INTEGER

\* the first break of bin-size mode, by the claim
LoweredFrom ==
  IF shiftByHalfBinSize = 1 THEN Sub(fromX, Div(binSize, R(2))) ELSE fromX

\* C6: with binSize > 0 and fromX < toX the bin count of bin-size mode is
\* ceil((toX - fromX) / binSize), fromX lowered by binSize / 2 first when the
\* shift is set: the n with (n - 1) binSize < toX - fromX <= n binSize;
\* break i is fromX + i binSize for i < n and break n is toX itself; sizes
\* 0, 10, 3 give 0, 3, 6, 9, 10.
C6_BinSizeBreaks ==
  (BySize /\ Gt(binSize, R(0)) /\ Lt(fromX, toX)) =>
    LET width == Sub(toX, LoweredFrom)
    IN /\ n_bin >= 1
       /\ Lt(Mul(R(n_bin - 1), binSize), width)
       /\ Le(width, Mul(R(n_bin), binSize))
       /\ Len(brks) = n_bin + 1
       /\ \A k \in 0..(n_bin - 1) : At(brks, k) = Add(LoweredFrom, Mul(R(k), binSize))
       /\ At(brks, n_bin) = toX
       /\ (fromX = R(0) /\ toX = R(10) /\ binSize = R(3) /\ shiftByHalfBinSize = 0)
            => brks = <<R(0), R(3), R(6), R(9), R(10)>>

\* breaks_on_binSize has returned 0, 3, 6, 9, 10 for 0, 10, 3: the last bin
\* is narrower than the bin size
C6_Witness ==
  /\ entry = "breaks_on_binSize"
  /\ pc = "done"
  /\ fromX = R(0) /\ toX = R(10) /\ binSize = R(3)
  /\ n_bin = 4
  /\ result.x = <<R(0), R(3), R(6), R(9), R(10)>>

=============================================================================
